---- MODULE Spec2Model ----
(***************************************************************************)
(* A model of src/Build_your_own_shell.c: the prompt loop (shell_loop),    *)
(* the dispatcher and launcher (execute_command), the job table            *)
(* (add_job, mark_job_finished, reap_children_nonblocking), the built-ins  *)
(* and the processes the shell forks.                                      *)
(*                                                                         *)
(* A command line is a sequence of one-character strings.  A token is a    *)
(* non-empty sequence of characters; the C NULL pointer that ends (or      *)
(* punches holes into) the args vector is the empty sequence.              *)
(***************************************************************************)
EXTENDS Integers, Sequences, FiniteSets, TLC

\* ------------------------------------------------------------ constants
MAX_CMD_LEN == 1024
MAX_ARGS == 64
MAX_HISTORY == 100
MAX_JOBS == 64
MAX_CMDLINE_COPY == 512

\* ------------------------------------------------------------ bounds
\* pids the kernel hands out to the shell's descendants: 1..MaxPid
MaxPid == 2
\* lines read by one run of Spec / SpecJobs / SpecExec (one command line,
\* then kill lines) / SpecHist
MaxReads == 2
MaxReadsJobs == 3
MaxReadsExec == 2
MaxReadsHist == 102
\* bytes a program writes to its standard output when that is a pipe
MaxWrite == 1
\* every LongEvery-th non-empty line of a run of SpecHist may be over-long
LongEvery == 50
\* SIGINTs the shell handles during one command cycle of a run of SpecSig
MaxSigint == 2
\* lines read by one run of SpecCap: enough background launches to fill the
\* job list and go past its capacity
MaxReadsCap == 66

\* the pid of the shell itself, outside the pool of its descendants
ShellPid == MaxPid + 1

NULL == << >>

Min(a, b) == IF a < b THEN a ELSE b

\* ------------------------------------------------------------ characters
Space == " "
Delims == {" ", "\t", "\r", "\n", "BEL"}        \* strtok's " \t\r\n\a"
Digits == <<"0", "1", "2", "3", "4", "5", "6", "7", "8", "9">>
DigitSet == {Digits[i] : i \in 1..10}
DigitVal(c) == (CHOOSE i \in 1..10 : Digits[i] = c) - 1

\* strncpy(dst, src, n - 1); dst[n - 1] = '\0'
StrNCopy(s, n) == SubSeq(s, 1, Min(Len(s), n - 1))

\* ------------------------------------------------------------ tokenizer
\* strtok skips the delimiters before a token: the first position at or
\* after i that holds no delimiter, Len(s) + 1 when there is none
SkipDelims(s, i) ==
    IF \E j \in i..Len(s) : s[j] \notin Delims
    THEN CHOOSE j \in i..Len(s) :
            s[j] \notin Delims /\ \A k \in i..(j - 1) : s[k] \in Delims
    ELSE Len(s) + 1

\* the last character of the token that starts at b
TokEnd(s, b) ==
    CHOOSE j \in b..Len(s) :
        /\ j = Len(s) \/ s[j + 1] \in Delims
        /\ \A k \in b..j : s[k] \notin Delims

\* the loop of shell_loop: token = strtok(...) while token != NULL and
\* i < MAX_ARGS - 1; room is MAX_ARGS - 1 - i
RECURSIVE TokLoop(_, _, _)
TokLoop(s, i, room) ==
    LET b == SkipDelims(s, i)
    IN  IF b > Len(s) \/ room = 0 THEN << >>
        ELSE <<SubSeq(s, b, TokEnd(s, b))>> \o TokLoop(s, TokEnd(s, b) + 1, room - 1)

\* args after the loop and args[i] = NULL
Tokenize(s) == TokLoop(s, 1, MAX_ARGS - 1) \o <<NULL>>

\* atoi: an optional sign, then the leading run of digits; 0 when there is none
RECURSIVE DigitRun(_, _)
DigitRun(t, acc) ==
    IF t = << >> \/ Head(t) \notin DigitSet THEN acc
    ELSE DigitRun(Tail(t), 10 * acc + DigitVal(Head(t)))

Atoi(t) ==
    IF t = << >> THEN 0
    ELSE IF Head(t) = "-" THEN 0 - DigitRun(Tail(t), 0)
    ELSE IF Head(t) = "+" THEN DigitRun(Tail(t), 0)
    ELSE DigitRun(t, 0)

\* ------------------------------------------------------------ words
W_cd == <<"c", "d">>
W_exit == <<"e", "x", "i", "t">>
W_help == <<"h", "e", "l", "p">>
W_pwd == <<"p", "w", "d">>
W_echo == <<"e", "c", "h", "o">>
W_history == <<"h", "i", "s", "t", "o", "r", "y">>
W_env == <<"e", "n", "v">>
W_set == <<"s", "e", "t">>
W_unset == <<"u", "n", "s", "e", "t">>
W_jobs == <<"j", "o", "b", "s">>
W_kill == <<"k", "i", "l", "l">>

builtin_str ==
    <<W_cd, W_exit, W_help, W_pwd, W_echo, W_history, W_env, W_set, W_unset,
      W_jobs, W_kill>>

num_builtins == Len(builtin_str)

T_lt == <<"<">>
T_gt == <<">">>
T_gtgt == <<">", ">">>
T_pipe == <<"|">>
T_amp == <<"&">>

\* ------------------------------------------------------------ state
VARIABLES
    pc,         \* where the shell is: "prompt", "read", "wait", "done", "killed"
    status,     \* shell_loop's status: what execute_command returned last
    cmd_copy,   \* shell_loop's copy of the line read last
    args,       \* shell_loop's args vector, as execute_command left it
    history,    \* history[0 .. history_count - 1]
    jobs,       \* jobs[0 .. job_count - 1]
    procs,      \* the shell's descendants, by pid
    fgpid,      \* the pid execute_command waits for (0: none)
    out,        \* what the shell printed during the current cycle
    consumed,   \* the non-empty lines fgets has returned so far
    nreads      \* how many lines fgets has returned so far

vars ==
    <<pc, status, cmd_copy, args, history, jobs, procs, fgpid, out, consumed,
      nreads>>

history_count == Len(history)
job_count == Len(jobs)

\* ------------------------------------------------------------ file descriptors
TTY == <<"tty">>
File(path, mode) == <<"file", path, mode>>
PipeR(l, r) == <<"pipe_r", l, r>>
PipeW(l, r) == <<"pipe_w", l, r>>

\* ------------------------------------------------------------ job helpers
job_t(pid, cmdline, running) ==
    [pid |-> pid, cmdline |-> cmdline, running |-> running]

\* add_job that takes over the records which already carry the pid instead
\* of appending
add_job_ReuseSlot(js, pid, cmdline) ==
    IF \E i \in 1..Len(js) : js[i].pid = pid
    THEN [i \in 1..Len(js) |->
            IF js[i].pid = pid
            THEN job_t(pid, StrNCopy(cmdline, MAX_CMDLINE_COPY), 1)
            ELSE js[i]]
    ELSE IF Len(js) >= MAX_JOBS THEN js
    ELSE Append(js, job_t(pid, StrNCopy(cmdline, MAX_CMDLINE_COPY), 1))

\* add_job with its capacity test off by one: a record is written past the
\* end of the array
add_job_PastEnd(js, pid, cmdline) ==
    IF Len(js) > MAX_JOBS THEN js
    ELSE Append(js, job_t(pid, StrNCopy(cmdline, MAX_CMDLINE_COPY), 1))

add_job(js, pid, cmdline) ==
    IF Len(js) >= MAX_JOBS THEN js
    ELSE Append(js, job_t(pid, StrNCopy(cmdline, MAX_CMDLINE_COPY), 1))

\* the first record with that pid, 0 when there is none
FirstJobWithPid(js, pid) ==
    IF \E i \in 1..Len(js) : js[i].pid = pid
    THEN CHOOSE i \in 1..Len(js) :
            js[i].pid = pid /\ \A j \in 1..(i - 1) : js[j].pid # pid
    ELSE 0

\* mark_job_finished with = for == in its test: the first record takes the
\* pid and is marked, whatever pid it carried
mark_job_finished_Assign(js, pid) ==
    IF Len(js) = 0 THEN js
    ELSE [js EXCEPT ![1] = [@ EXCEPT !.pid = pid, !.running = 0]]

mark_job_finished(js, pid) ==
    LET i == FirstJobWithPid(js, pid)
    IN  IF i = 0 THEN js ELSE [js EXCEPT ![i].running = 0]

RECURSIVE MarkAll(_, _)
MarkAll(js, pids) ==
    IF pids = {} THEN js
    ELSE LET p == CHOOSE q \in pids : TRUE
         IN  MarkAll(mark_job_finished(js, p), pids \ {p})

\* ------------------------------------------------------------ processes
Pids == 1..MaxPid

\* a free pid is one no live or unreaped process carries
FreePids == Pids \ DOMAIN procs

NoProc ==
    [st |-> "none", ppid |-> 0, args |-> << >>, cmdline |-> << >>, bg |-> 0,
     side |-> "none", pipe_pos |-> 0, argv |-> << >>, in |-> TTY, out |-> TTY,
     reader |-> FALSE, towrite |-> 0, waitfor |-> 0, waited |-> "none",
     how |-> "none"]

Zombie(ppid, how) == [NoProc EXCEPT !.st = "zombie", !.ppid = ppid, !.how = how]

Alive(ps, p) == p \in DOMAIN ps /\ ps[p].st # "zombie"

Restrict(f, S) == [x \in S |-> f[x]]

\* process p of ps terminates: it stays as a zombie until its parent waits
\* for it, or is reaped at once by init when its parent is gone; its own
\* children are handed to init
Die(ps, p, how) ==
    LET gone == IF ps[p].ppid = 0 THEN {p} ELSE {}
        kids == {q \in DOMAIN ps : ps[q].ppid = p}
        deadkids == {q \in kids : ps[q].st = "zombie"}
        ps1 == [q \in DOMAIN ps |->
                   IF q = p THEN Zombie(ps[p].ppid, how)
                   ELSE IF q \in kids THEN [ps[q] EXCEPT !.ppid = 0]
                   ELSE ps[q]]
    IN  Restrict(ps1, DOMAIN ps \ (gone \cup deadkids))

\* the processes that hold the write end, or the read end, of a pipe
Writers(ps, l, r) == {p \in DOMAIN ps : Alive(ps, p) /\ ps[p].out = PipeW(l, r)}
Readers(ps, l, r) == {p \in DOMAIN ps : Alive(ps, p) /\ ps[p].in = PipeR(l, r)}


\* ------------------------------------------------------------ execute_command
\* while (args[arg_count] != NULL) arg_count++
arg_count(a) == (CHOOSE i \in 1..Len(a) : a[i] = NULL /\ \A j \in 1..(i - 1) : a[j] # NULL) - 1

\* background = 1 when the last token is "&"
IsBackground(a) == arg_count(a) > 0 /\ a[arg_count(a)] = T_amp

\* args[arg_count - 1] = NULL
StripAmp(a) == IF IsBackground(a) THEN [a EXCEPT ![arg_count(a)] = NULL] ELSE a

\* the index of the built-in that args[0] names, 0 when it names none
BuiltinIndex(a) ==
    IF \E i \in 1..num_builtins : a[1] = builtin_str[i]
    THEN CHOOSE i \in 1..num_builtins : a[1] = builtin_str[i]
    ELSE 0

\* the child's scan of its args vector for "<", ">", ">>" and "|": vector
\* positions are 1-based here, pipe_pos = 0 stands for the C code's -1
ScanInit(a) ==
    [args |-> a, inputFile |-> NULL, outputFile |-> NULL, append |-> 0, pipe_pos |-> 0]

RECURSIVE ScanFrom(_, _)
ScanFrom(sc, i) ==
    LET a == sc.args
    IN  IF a[i] = NULL THEN sc
        ELSE IF a[i] = T_lt
        THEN ScanFrom([sc EXCEPT !.inputFile = a[i + 1], !.args[i] = NULL], i + 1)
        ELSE IF a[i] = T_gt
        THEN ScanFrom([sc EXCEPT !.outputFile = a[i + 1], !.args[i] = NULL], i + 1)
        ELSE IF a[i] = T_gtgt
        THEN ScanFrom([sc EXCEPT !.outputFile = a[i + 1], !.append = 1,
                                 !.args[i] = NULL], i + 1)
        ELSE IF a[i] = T_pipe
        THEN [sc EXCEPT !.pipe_pos = i, !.args[i] = NULL]
        ELSE ScanFrom(sc, i + 1)

Scan(a) == ScanFrom(ScanInit(a), 1)

\* the vector execvp receives when handed &a[from]: the tokens up to the
\* first NULL at or after from
Argv(a, from) ==
    LET end == CHOOSE i \in from..Len(a) : a[i] = NULL /\ \A j \in from..(i - 1) : a[j] # NULL
    IN  SubSeq(a, from, end - 1)

\* the descriptor that standard input and standard output of the child are
\* after its open and dup2 calls
ChildStdin(sc) == IF sc.inputFile # NULL THEN File(sc.inputFile, "r") ELSE TTY

ChildStdout(sc) ==
    IF sc.outputFile # NULL
    THEN File(sc.outputFile, IF sc.append = 1 THEN "append" ELSE "trunc")
    ELSE TTY

\* the process image after a successful execvp.  Programs are told apart by
\* what they do with a pipe: reader, whether a program whose standard input
\* is a pipe reads it to end of input before it exits; towrite, how many
\* bytes a program whose standard output is a pipe still writes to it
Program(proc, side, argv, in, o, reader, towrite) ==
    [proc EXCEPT !.st = "run", !.side = side, !.argv = argv, !.args = << >>,
                 !.in = in, !.out = o, !.reader = reader, !.towrite = towrite,
                 !.waitfor = 0]

\* the child of execute_command, from its fork to the point where it execs,
\* exits, or (left side of a pipe) blocks in waitpid.  inOK, outOK, pipeOK,
\* execOK: whether open, open, pipe and execvp succeed; rpid: the pid fork
\* gives the right-hand process, 0 when fork fails
ChildSetup(p, inOK, outOK, pipeOK, rpid, execOK) ==
    /\ p \in DOMAIN procs
    /\ procs[p].st = "forked"
    /\ LET me == procs[p]
           sc == Scan(StripAmp(me.args))
           in == ChildStdin(sc)
           o  == ChildStdout(sc)
           a  == sc.args
       IN  /\ rpid \in FreePids \cup {0}
           /\ procs' =
                IF sc.inputFile # NULL /\ ~inOK THEN Die(procs, p, "fail")
                ELSE IF sc.outputFile # NULL /\ ~outOK THEN Die(procs, p, "fail")
                ELSE IF sc.pipe_pos # 0
                THEN IF ~pipeOK \/ rpid = 0 THEN Die(procs, p, "fail")
                     ELSE [q \in DOMAIN procs \cup {rpid} |->
                            IF q = p
                            THEN [me EXCEPT !.st = "leftwait", !.side = "left",
                                            !.args = a, !.in = in,
                                            !.out = PipeW(p, rpid), !.waitfor = rpid]
                            ELSE IF q = rpid
                            THEN [me EXCEPT !.st = "rightforked", !.side = "right",
                                            !.ppid = p, !.args = a,
                                            !.pipe_pos = sc.pipe_pos,
                                            !.in = PipeR(p, rpid), !.out = o]
                            ELSE procs[q]]
                ELSE IF a[1] = NULL \/ ~execOK THEN Die(procs, p, "fail")
                ELSE [procs EXCEPT ![p] =
                        Program(me, "single", Argv(a, 1), in, o, FALSE, 0)]
    /\ UNCHANGED <<pc, status, cmd_copy, args, history, jobs, fgpid, out, consumed, nreads>>

\* RightExec without the exit after a failed execvp: the right-hand process
\* falls through to execute_command's return 1, back into shell_loop
RightExec_NoExit(q, execOK, reader) ==
    /\ q \in DOMAIN procs
    /\ procs[q].st = "rightforked"
    /\ LET me == procs[q]
           a == me.args
       IN  procs' =
             IF a[me.pipe_pos + 1] = NULL \/ ~execOK
             THEN [procs EXCEPT ![q].st = "shell_loop"]
             ELSE [procs EXCEPT ![q] =
                     Program([me EXCEPT !.pipe_pos = 0], "right",
                             Argv(a, me.pipe_pos + 1), me.in, me.out, reader, 0)]
    /\ UNCHANGED <<pc, status, cmd_copy, args, history, jobs, fgpid, out, consumed, nreads>>

\* the right-hand process: execvp(args[pipe_pos + 1], &args[pipe_pos + 1])
RightExec(q, execOK, reader) ==
    /\ q \in DOMAIN procs
    /\ procs[q].st = "rightforked"
    /\ LET me == procs[q]
           a == me.args
       IN  procs' =
             IF a[me.pipe_pos + 1] = NULL \/ ~execOK THEN Die(procs, q, "fail")
             ELSE [procs EXCEPT ![q] =
                     Program([me EXCEPT !.pipe_pos = 0], "right",
                             Argv(a, me.pipe_pos + 1), me.in, me.out, reader, 0)]
    /\ UNCHANGED <<pc, status, cmd_copy, args, history, jobs, fgpid, out, consumed, nreads>>

\* LeftExec without its waitpid: the left-hand process execs at once
LeftExec_NoWait(p, execOK, towrite) ==
    /\ p \in DOMAIN procs
    /\ procs[p].st = "leftwait"
    /\ procs' =
         IF procs[p].args[1] = NULL \/ ~execOK THEN Die(procs, p, "fail")
         ELSE [procs EXCEPT ![p] =
                 Program(procs[p], "left", Argv(procs[p].args, 1), procs[p].in,
                         procs[p].out, FALSE, towrite)]
    /\ UNCHANGED <<pc, status, cmd_copy, args, history, jobs, fgpid, out, consumed, nreads>>

\* the left-hand process: waitpid(pipe_pid, NULL, 0) returns once the
\* right-hand process has terminated, then execvp(args[0], args).  waited
\* keeps how the right-hand process ended (the status the code discards)
LeftExec(p, execOK, towrite) ==
    /\ p \in DOMAIN procs
    /\ procs[p].st = "leftwait"
    /\ procs[p].waitfor \in DOMAIN procs
    /\ procs[procs[p].waitfor].st = "zombie"
    /\ LET reaped == Restrict(procs, DOMAIN procs \ {procs[p].waitfor})
           a == procs[p].args
           me == [procs[p] EXCEPT !.waited = procs[procs[p].waitfor].how]
       IN  procs' =
             IF a[1] = NULL \/ ~execOK THEN Die(reaped, p, "fail")
             ELSE [reaped EXCEPT ![p] =
                     Program(me, "left", Argv(a, 1), me.in, me.out, FALSE, towrite)]
    /\ UNCHANGED <<pc, status, cmd_copy, args, history, jobs, fgpid, out, consumed, nreads>>


\* a program writes one byte to the pipe that is its standard output: with
\* no process left that holds the read end the write raises SIGPIPE
ProgWrite(p) ==
    /\ p \in DOMAIN procs
    /\ procs[p].st = "run"
    /\ procs[p].towrite > 0
    /\ LET o == procs[p].out
       IN  procs' = IF Readers(procs, o[2], o[3]) = {}
                    THEN Die(procs, p, "sigpipe")
                    ELSE [procs EXCEPT ![p].towrite = @ - 1]
    /\ UNCHANGED <<pc, status, cmd_copy, args, history, jobs, fgpid, out, consumed, nreads>>

\* read() on the pipe that is standard input returns 0 (end of input) only
\* when no process holds the write end any more
AtEndOfInput(ps, p) ==
    LET in == ps[p].in IN Writers(ps, in[2], in[3]) = {}

\* a program exits once it has written its output and, if it reads its
\* standard input to the end, once it has seen the end of input
ProgExit(p) ==
    /\ p \in DOMAIN procs
    /\ procs[p].st = "run"
    /\ procs[p].towrite = 0
    /\ procs[p].reader => AtEndOfInput(procs, p)
    /\ procs' = Die(procs, p, "exit")
    /\ UNCHANGED <<pc, status, cmd_copy, args, history, jobs, fgpid, out, consumed, nreads>>


\* ------------------------------------------------------------ the shell
\* reap_children_nonblocking: waitpid(-1, &status, WNOHANG) returns each
\* terminated child of the shell once; mark_job_finished for each
ShellZombies(ps) == {p \in DOMAIN ps : ps[p].st = "zombie" /\ ps[p].ppid = ShellPid}

reap_children_nonblocking(js, ps) ==
    [jobs |-> MarkAll(js, ShellZombies(ps)),
     procs |-> Restrict(ps, DOMAIN ps \ ShellZombies(ps))]

\* the shell process ends: init reaps its zombies and adopts its children
ShellGone(ps) ==
    [q \in DOMAIN ps \ ShellZombies(ps) |->
        IF ps[q].ppid = ShellPid THEN [ps[q] EXCEPT !.ppid = 0] ELSE ps[q]]

\* what the built-ins and execute_command print
Msg(tag) == <<tag>>
JobLine(i, j) ==
    <<"job", i, j.pid, j.cmdline, IF j.running # 0 THEN "running" ELSE "finished">>
HistLine(i, l) == <<"hist", i, l>>

\* the state execute_command leaves behind
Result(st, a, js, ps, fg, o) ==
    [status |-> st, args |-> a, jobs |-> js, procs |-> ps, fgpid |-> fg,
     out |-> o, killed |-> FALSE]

shell_cd(a, js, ps, ok) ==
    Result(1, a, js, ps, 0,
           IF a[2] = NULL THEN <<Msg("cd: expected argument")>>
           ELSE IF ~ok THEN <<Msg("cd: chdir failed")>>
           ELSE << >>)

shell_exit(a, js, ps) == Result(0, a, js, ps, 0, << >>)

shell_help(a, js, ps) == Result(1, a, js, ps, 0, <<Msg("help")>>)

shell_pwd(a, js, ps, ok) ==
    Result(1, a, js, ps, 0, IF ok THEN <<Msg("cwd")>> ELSE <<Msg("pwd: getcwd failed")>>)

shell_echo(a, js, ps) == Result(1, a, js, ps, 0, <<<<"echo", Argv(a, 2)>>>>)

shell_history_cmd(a, js, ps, hist) ==
    Result(1, a, js, ps, 0, [i \in 1..Len(hist) |-> HistLine(i, hist[i])])

shell_env(a, js, ps) == Result(1, a, js, ps, 0, <<Msg("environ")>>)

shell_set(a, js, ps, ok) ==
    Result(1, a, js, ps, 0,
           IF a[2] = NULL \/ a[3] = NULL THEN <<Msg("Usage: set VAR VALUE")>>
           ELSE IF ~ok THEN <<Msg("setenv failed")>>
           ELSE << >>)

shell_unset(a, js, ps, ok) ==
    Result(1, a, js, ps, 0,
           IF a[2] = NULL THEN <<Msg("Usage: unset VAR")>>
           ELSE IF ~ok THEN <<Msg("unsetenv failed")>>
           ELSE << >>)

shell_jobs(a, js, ps) ==
    LET r == reap_children_nonblocking(js, ps)
    IN  Result(1, a, r.jobs, r.procs, 0,
               IF Len(r.jobs) = 0 THEN <<Msg("No background jobs.")>>
               ELSE [i \in 1..Len(r.jobs) |-> JobLine(i, r.jobs[i])])

\* kill(pid, SIGTERM) as the kernel answers it: 0 for a process that exists,
\* a zombie included; -1 (ESRCH) for a pid no process carries
KillOK(ps, pid) == pid = ShellPid \/ pid \in DOMAIN ps

\* the processes after SIGTERM is delivered to pid: code of the shell that
\* has not exec'd yet keeps the default action and terminates; a program
\* may catch or ignore the signal (survives)
Signalled(ps, pid, survives) ==
    IF pid \notin DOMAIN ps \/ ps[pid].st = "zombie" THEN ps
    ELSE IF ps[pid].st = "run" /\ survives THEN ps
    ELSE Die(ps, pid, "sigterm")

\* shell_kill handing back the result of a failed kill() as its status
shell_kill_fatal(a, js, ps, survives) ==
    IF a[2] # NULL /\ Atoi(a[2]) > 0 /\ ~KillOK(ps, Atoi(a[2]))
    THEN Result(0, a, js, ps, 0, <<Msg("kill failed")>>)
    ELSE IF a[2] = NULL THEN Result(1, a, js, ps, 0, <<Msg("Usage: kill PID")>>)
    ELSE IF Atoi(a[2]) <= 0 THEN Result(1, a, js, ps, 0, <<<<"Invalid PID", a[2]>>>>)
    ELSE IF Atoi(a[2]) = ShellPid
    THEN [Result(1, a, js, ps, 0, << >>) EXCEPT !.killed = TRUE]
    ELSE Result(1, a, mark_job_finished(js, Atoi(a[2])),
                Signalled(ps, Atoi(a[2]), survives), 0, << >>)

shell_kill(a, js, ps, survives) ==
    IF a[2] = NULL THEN Result(1, a, js, ps, 0, <<Msg("Usage: kill PID")>>)
    ELSE LET pid == Atoi(a[2])
         IN  IF pid <= 0 THEN Result(1, a, js, ps, 0, <<<<"Invalid PID", a[2]>>>>)
             ELSE IF ~KillOK(ps, pid)
             THEN Result(1, a, js, ps, 0, <<Msg("kill failed")>>)
             ELSE IF pid = ShellPid
             THEN [Result(1, a, js, ps, 0, << >>) EXCEPT !.killed = TRUE]
             ELSE Result(1, a, mark_job_finished(js, pid),
                         Signalled(ps, pid, survives), 0, << >>)

\* the choices of the environment during one execute_command: forkpid, the
\* pid fork returns (0: fork fails); ok, whether chdir, getcwd, setenv or
\* unsetenv succeeds; survives, whether a signalled program survives SIGTERM
Builtin(i, a, js, ps, hist, env) ==
    CASE i = 1 -> shell_cd(a, js, ps, env.ok)
      [] i = 2 -> shell_exit(a, js, ps)
      [] i = 3 -> shell_help(a, js, ps)
      [] i = 4 -> shell_pwd(a, js, ps, env.ok)
      [] i = 5 -> shell_echo(a, js, ps)
      [] i = 6 -> shell_history_cmd(a, js, ps, hist)
      [] i = 7 -> shell_env(a, js, ps)
      [] i = 8 -> shell_set(a, js, ps, env.ok)
      [] i = 9 -> shell_unset(a, js, ps, env.ok)
      [] i = 10 -> shell_jobs(a, js, ps)
      [] i = 11 -> shell_kill(a, js, ps, env.survives)

\* the forked child: a copy of the shell, about to run the child branch
Child(a, cmdline) ==
    [NoProc EXCEPT !.st = "forked", !.ppid = ShellPid, !.args = a,
                   !.cmdline = cmdline, !.bg = IF IsBackground(a) THEN 1 ELSE 0]

\* execute_command without its test of pid < 0: after a failed fork the
\* parent branch runs with pid = -1
execute_command_ForkUnchecked(a, orig_cmdline, js, ps, hist, env) ==
    IF a[1] = NULL THEN Result(1, a, js, ps, 0, << >>)
    ELSE IF BuiltinIndex(a) # 0 THEN Builtin(BuiltinIndex(a), a, js, ps, hist, env)
    ELSE IF env.forkpid = 0
    THEN IF IsBackground(a)
         THEN Result(1, StripAmp(a), add_job(js, -1, orig_cmdline), ps, 0,
                     <<<<"Started background job with PID", -1>>>>)
         ELSE Result(1, a, js, ps, 0, <<Msg("waitpid failed")>>)
    ELSE LET pid == env.forkpid
             ps1 == [q \in DOMAIN ps \cup {pid} |->
                       IF q = pid THEN Child(a, orig_cmdline) ELSE ps[q]]
         IN  IF IsBackground(a)
             THEN Result(1, StripAmp(a), add_job(js, pid, orig_cmdline), ps1, 0,
                         <<<<"Started background job with PID", pid>>>>)
             ELSE Result(1, a, js, ps1, pid, << >>)

\* execute_command(args, orig_cmdline), in the shell, up to its return or to
\* its waitpid for the foreground child (fgpid # 0)
execute_command(a, orig_cmdline, js, ps, hist, env) ==
    IF a[1] = NULL THEN Result(1, a, js, ps, 0, << >>)
    ELSE IF BuiltinIndex(a) # 0 THEN Builtin(BuiltinIndex(a), a, js, ps, hist, env)
    ELSE IF env.forkpid = 0
    THEN Result(1, StripAmp(a), js, ps, 0, <<Msg("fork failed")>>)
    ELSE LET pid == env.forkpid
             ps1 == [q \in DOMAIN ps \cup {pid} |->
                       IF q = pid THEN Child(a, orig_cmdline) ELSE ps[q]]
         IN  IF IsBackground(a)
             THEN Result(1, StripAmp(a), add_job(js, pid, orig_cmdline), ps1, 0,
                         <<<<"Started background job with PID", pid>>>>)
             ELSE Result(1, a, js, ps1, pid, << >>)


\* SaveHistory that overwrites the last slot of a full history without
\* shifting the entries
SaveHistory_NoShift(hist, cc) ==
    IF Len(hist) < MAX_HISTORY THEN Append(hist, StrNCopy(cc, MAX_CMD_LEN))
    ELSE [hist EXCEPT ![MAX_HISTORY] = StrNCopy(cc, MAX_CMD_LEN)]

\* the history update of shell_loop: append, or shift every entry down by
\* one and store the line in the last slot
SaveHistory(hist, cc) ==
    IF Len(hist) < MAX_HISTORY THEN Append(hist, StrNCopy(cc, MAX_CMD_LEN))
    ELSE [i \in 1..MAX_HISTORY |->
            IF i < MAX_HISTORY THEN hist[i + 1] ELSE StrNCopy(cc, MAX_CMD_LEN)]

EnvChoices == [forkpid : FreePids \cup {0}, ok : BOOLEAN, survives : BOOLEAN]

Init ==
    /\ pc = "prompt"
    /\ status = 1
    /\ cmd_copy = << >>
    /\ args = <<NULL>>
    /\ history = << >>
    /\ jobs = << >>
    /\ procs = << >>
    /\ fgpid = 0
    /\ out = << >>
    /\ consumed = << >>
    /\ nreads = 0

\* top of the loop: reap, then print the prompt
Prompt ==
    /\ pc = "prompt"
    /\ LET r == reap_children_nonblocking(jobs, procs)
       IN  jobs' = r.jobs /\ procs' = r.procs
    /\ pc' = "read"
    /\ UNCHANGED <<status, cmd_copy, args, history, fgpid, out, consumed, nreads>>

\* fgets returns NULL: print "exit" and leave the loop
ReadEOF ==
    /\ pc = "read"
    /\ pc' = "done"
    /\ out' = <<Msg("exit")>>
    /\ procs' = ShellGone(procs)
    /\ UNCHANGED <<status, cmd_copy, args, history, jobs, fgpid, consumed, nreads>>

\* fgets returns a line (its newline already cut off): one pass of the loop
\* body, through execute_command
ReadLine(line, env) ==
    /\ pc = "read"
    /\ Len(line) <= MAX_CMD_LEN - 2
    /\ nreads' = nreads + 1
    /\ IF Len(line) = 0
       THEN /\ pc' = "prompt"
            /\ UNCHANGED <<status, cmd_copy, args, history, jobs, procs, fgpid,
                           out, consumed>>
       ELSE \E cc \in {StrNCopy(line, MAX_CMDLINE_COPY)} :
            \E hist \in {SaveHistory(history, cc)} :
            \E toks \in {Tokenize(line)} :
            \E r \in {execute_command(toks, cc, jobs, procs, hist, env)} :
                /\ cmd_copy' = cc
                /\ history' = hist
                /\ consumed' = Append(consumed, line)
                /\ args' = r.args
                /\ status' = r.status
                /\ jobs' = r.jobs
                /\ out' = r.out
                /\ fgpid' = r.fgpid
                /\ pc' = IF r.killed THEN "killed"
                         ELSE IF r.fgpid # 0 THEN "wait"
                         ELSE IF r.status = 0 THEN "done"
                         ELSE "prompt"
                /\ procs' = IF r.killed \/ r.status = 0 THEN ShellGone(r.procs)
                            ELSE r.procs

\* WaitDone with WNOHANG semantics: the parent's waitpid returns although
\* the foreground child is still running
WaitDone_NoWait ==
    /\ pc = "wait"
    /\ fgpid \in DOMAIN procs
    /\ procs' = IF procs[fgpid].st = "zombie"
                THEN Restrict(procs, DOMAIN procs \ {fgpid})
                ELSE procs
    /\ fgpid' = 0
    /\ status' = 1
    /\ pc' = "prompt"
    /\ UNCHANGED <<cmd_copy, args, history, jobs, out, consumed, nreads>>

\* waitpid(pid, &status, 0) in the parent returns: the foreground child has
\* terminated; execute_command returns 1
WaitDone ==
    /\ pc = "wait"
    /\ fgpid \in DOMAIN procs
    /\ procs[fgpid].st = "zombie"
    /\ procs' = Restrict(procs, DOMAIN procs \ {fgpid})
    /\ fgpid' = 0
    /\ status' = 1
    /\ pc' = "prompt"
    /\ UNCHANGED <<cmd_copy, args, history, jobs, out, consumed, nreads>>

\* ------------------------------------------------------------ input lines
RECURSIVE Cat(_)
Cat(ws) ==
    IF Len(ws) = 0 THEN << >>
    ELSE IF Len(ws) = 1 THEN ws[1]
    ELSE ws[1] \o <<Space>> \o Cat(Tail(ws))

RECURSIVE Decimal(_)
Decimal(n) == IF n < 10 THEN <<Digits[n + 1]>> ELSE Decimal(n \div 10) \o <<Digits[(n % 10) + 1]>>


P_a == <<"a">>
P_b == <<"b">>
F_i == <<"i">>
F_o == <<"o">>

ExecLines ==
    { Cat(<<P_a>>),
      Cat(<<P_a, T_lt, F_i, T_gt, F_o>>),
      Cat(<<P_a, T_gtgt, F_o>>),
      Cat(<<P_a, T_pipe, P_b>>),
      Cat(<<P_a, T_lt, F_i, T_pipe, P_b, T_gt, F_o>>),
      Cat(<<P_a, T_gt, F_o, T_pipe, P_b>>),
      Cat(<<P_a, T_gt>>),
      Cat(<<P_a, T_lt>>),
      Cat(<<P_a, T_gtgt>>),
      Cat(<<P_a, T_amp, P_b>>),
      Cat(<<P_a, T_pipe, P_b, T_amp>>),
      Cat(<<P_a, T_pipe>>),
      Cat(<<T_gt, F_o>>) }

KillLine(n) == Cat(<<W_kill, Decimal(n)>>)

ExecNext ==
    \/ Prompt
    \/ ReadEOF
    \/ /\ nreads = 0
       /\ \E line \in ExecLines, env \in EnvChoices : ReadLine(line, env)
    \/ /\ 0 < nreads /\ nreads < MaxReadsExec
       /\ \E n \in Pids, env \in EnvChoices : ReadLine(KillLine(n), env)
    \/ WaitDone
    \/ \E p \in Pids, inOK, outOK, pipeOK, execOK \in BOOLEAN, rpid \in Pids \cup {0} :
          ChildSetup(p, inOK, outOK, pipeOK, rpid, execOK)
    \/ \E q \in Pids, execOK, reader \in BOOLEAN : RightExec(q, execOK, reader)
    \/ \E p \in Pids, execOK \in BOOLEAN, towrite \in 0..MaxWrite : LeftExec(p, execOK, towrite)
    \/ \E p \in Pids : ProgWrite(p)
    \/ \E p \in Pids : ProgExit(p)

SpecExec == Init /\ [][ExecNext]_vars


\* ------------------------------------------------------------ claims C1 - C5
Metachars == {T_lt, T_gt, T_gtgt, T_pipe, T_amp}

\* the tokens of the line a process was forked for, without a trailing "&"
LineToks(p) ==
    LET a == StripAmp(Tokenize(procs[p].cmdline)) IN Argv(a, 1)

HasPipe(toks) == \E i \in 1..Len(toks) : toks[i] = T_pipe
FirstPipe(toks) ==
    CHOOSE i \in 1..Len(toks) : toks[i] = T_pipe /\ \A j \in 1..(i - 1) : toks[j] # T_pipe
LeftToks(toks) == SubSeq(toks, 1, FirstPipe(toks) - 1)
RightToks(toks) == SubSeq(toks, FirstPipe(toks) + 1, Len(toks))

\* the redirections a side's own tokens ask for
InRedirs(toks) == {i \in 1..(Len(toks) - 1) : toks[i] = T_lt}
OutRedirs(toks) == {i \in 1..(Len(toks) - 1) : toks[i] \in {T_gt, T_gtgt}}
Last(S) == CHOOSE i \in S : \A j \in S : j <= i
WantedStdin(toks) ==
    IF InRedirs(toks) = {} THEN TTY ELSE File(toks[Last(InRedirs(toks)) + 1], "r")
WantedStdout(toks) ==
    IF OutRedirs(toks) = {} THEN TTY
    ELSE LET i == Last(OutRedirs(toks))
         IN  File(toks[i + 1], IF toks[i] = T_gtgt THEN "append" ELSE "trunc")

Running(p) == p \in DOMAIN procs /\ procs[p].st = "run"

\* C1: in a pipeline, when a side execs, its standard input and output are
\* those its own tokens ask for: the left side reads the file of its own "<"
\* (else the terminal) and writes the pipe, the right side reads the pipe and
\* writes the file of its own ">" or ">>" (else the terminal).
C1_RedirPerSide ==
    \A p \in DOMAIN procs :
        (Running(p) /\ procs[p].side \in {"left", "right"}) =>
            LET toks == LineToks(p)
                me == procs[p]
            IN  /\ me.side = "left" =>
                    /\ me.in = WantedStdin(LeftToks(toks))
                    /\ OutRedirs(LeftToks(toks)) = {} =>
                          (me.out[1] = "pipe_w" /\ me.out[2] = p)
                /\ me.side = "right" =>
                    /\ me.out = WantedStdout(RightToks(toks))
                    /\ InRedirs(RightToks(toks)) = {} =>
                          (me.in[1] = "pipe_r" /\ me.in[3] = p)

\* C2: while the first command of a pipeline runs with output still to
\* write, and the second command was exec'd and ended by itself or not at
\* all, a live process holds the read end of the pipe, so that what the
\* first command writes is delivered.
C2_PipeDelivers ==
    \A p \in DOMAIN procs :
        (/\ Running(p)
         /\ procs[p].side = "left"
         /\ procs[p].towrite > 0
         /\ procs[p].waited = "exit") =>
            Readers(procs, procs[p].out[2], procs[p].out[3]) # {}

\* C3: no argument vector handed to execvp holds a metacharacter token.
C3_NoMetaInArgv ==
    \A p \in DOMAIN procs :
        Running(p) => \A i \in 1..Len(procs[p].argv) : procs[p].argv[i] \notin Metachars

\* a line whose last token is a redirection operator
MissingOperand(toks) == Len(toks) > 0 /\ toks[Len(toks)] \in {T_lt, T_gt, T_gtgt}

\* C4: for a line whose redirection operator has no operand no program is
\* exec'd.
C4_MissingOperandNotRun ==
    \A p \in DOMAIN procs : Running(p) => ~MissingOperand(LineToks(p))

\* the right-hand process q runs a program that reads its standard input to
\* the end, and the left-hand process of its pipe is blocked in waitpid on it
RightReads(q) ==
    /\ Running(q)
    /\ procs[q].side = "right"
    /\ procs[q].reader

LeftOf(q) == procs[q].in[2]

LeftBlocked(q) ==
    /\ LeftOf(q) \in DOMAIN procs
    /\ procs[LeftOf(q)].st = "leftwait"
    /\ procs[LeftOf(q)].waitfor = q

Deadlocked(q) == RightReads(q) /\ LeftBlocked(q)

KillStepOn(p) ==
    /\ pc = "read"
    /\ nreads' = nreads + 1
    /\ args'[1] = W_kill
    /\ args'[2] # NULL
    /\ Atoi(args'[2]) = p

W_1x == <<"1", "x">>
W_x == <<"x">>
W_minus1 == <<"-", "1">>

JobsLines ==
    { Cat(<<P_a, T_amp>>),
      Cat(<<W_jobs>>),
      Cat(<<W_kill>>),
      Cat(<<W_kill, W_1x>>),
      Cat(<<W_kill, W_x>>),
      Cat(<<W_kill, W_minus1>>) } \cup {KillLine(n) : n \in 0..ShellPid}

JobsNext ==
    \/ Prompt
    \/ ReadEOF
    \/ /\ nreads < MaxReadsJobs
       /\ \E line \in JobsLines, env \in EnvChoices : ReadLine(line, env)
    \/ \E p \in Pids, inOK, outOK, pipeOK, execOK \in BOOLEAN :
          ChildSetup(p, inOK, outOK, pipeOK, 0, execOK)
    \/ \E p \in Pids : ProgExit(p)

SpecJobs == Init /\ [][JobsNext]_vars

\* ------------------------------------------------------------ claims C6 - C8
\* this step is one pass of the loop body for a non-empty line
LineStep == pc = "read" /\ nreads' = nreads + 1 /\ Len(consumed') = Len(consumed) + 1

\* the tokens of the line this step read
StepToks == Tokenize(consumed'[Len(consumed')])

\* this step ran the built-in named w
BuiltinStep(w) == LineStep /\ StepToks[1] = w

\* this step launched an external command in the background and fork gave pid
BackgroundLaunch(pid) ==
    /\ LineStep
    /\ StepToks[1] # NULL
    /\ BuiltinIndex(StepToks) = 0
    /\ IsBackground(StepToks)
    /\ pid \notin DOMAIN procs
    /\ pid \in DOMAIN procs'

\* the process that carries pid has not terminated
StillRuns(ps, pid) == pid \in DOMAIN ps /\ ps[pid].st # "zombie"

\* C6: a background launch does not enter the foreground wait and registers
\* the record (pid, command line, running) at the end of the job list; and a
\* jobs listing reports as running only jobs whose process has not exited.
C6_BackgroundJob ==
    [][/\ \A pid \in Pids :
            BackgroundLaunch(pid) =>
                /\ pc' = "prompt"
                /\ jobs' = Append(jobs, job_t(pid, consumed'[Len(consumed')], 1))
       /\ BuiltinStep(W_jobs) =>
            \A i \in 1..Len(jobs') :
                jobs'[i].running = 1 => StillRuns(procs, jobs'[i].pid)]_vars

\* this step is a kill built-in whose kill(pid, SIGTERM) returned 0
KillSent(pid) ==
    /\ BuiltinStep(W_kill)
    /\ StepToks[2] # NULL
    /\ Atoi(StepToks[2]) = pid
    /\ pid > 0
    /\ out' = << >>
    /\ pc' # "killed"

\* C7: after kill <pid> succeeded, every record with that pid that was
\* marked running is marked finished (and so every later listing shows it
\* finished).
C7_KillMarksFinished ==
    [][\A pid \in Pids :
         KillSent(pid) =>
            \A i \in 1..Len(jobs) :
                (jobs[i].pid = pid /\ jobs[i].running = 1) => jobs'[i].running = 0]_vars

\* a token that is not an optionally signed decimal number
Numeric(t) ==
    LET d == IF t # << >> /\ Head(t) \in {"-", "+"} THEN Tail(t) ELSE t
    IN  d # << >> /\ \A i \in 1..Len(d) : d[i] \in DigitSet

\* pid is the pid of a process that has terminated: an unreaped zombie, or
\* the pid of a tracked job whose process is gone
Finished(pid) ==
    \/ pid \in DOMAIN procs /\ procs[pid].st = "zombie"
    \/ pid \notin DOMAIN procs /\ \E i \in 1..Len(jobs) : jobs[i].pid = pid

\* C8: kill X with X non-numeric, non-positive or the pid of a finished
\* process reports an error, changes no job record, returns 1, and sends no
\* signal when X is non-numeric or non-positive.
C8_KillInvalid ==
    [][(BuiltinStep(W_kill) /\ StepToks[2] # NULL) =>
         LET X == StepToks[2]
             bad == ~Numeric(X) \/ Atoi(X) <= 0
         IN  (bad \/ Finished(Atoi(X))) =>
                /\ out' # << >>
                /\ jobs' = jobs
                /\ status' = 1
                /\ pc' = "prompt"
                /\ bad => procs' = procs]_vars


\* ------------------------------------------------------------ the whole shell
W_d == <<"d">>
W_y == <<"y">>

Lines ==
    { << >>,
      <<Space>>,
      Cat(<<P_a>>),
      Cat(<<P_a, T_amp>>),
      Cat(<<P_a, T_lt, F_i, T_gt, F_o>>),
      Cat(<<P_a, T_pipe, P_b>>),
      Cat(<<W_cd>>),
      Cat(<<W_cd, W_d>>),
      Cat(<<W_exit>>),
      Cat(<<W_help>>),
      Cat(<<W_pwd>>),
      Cat(<<W_echo, P_a, P_b>>),
      Cat(<<W_history>>),
      Cat(<<W_env>>),
      Cat(<<W_set, W_x>>),
      Cat(<<W_set, W_x, W_y>>),
      Cat(<<W_unset>>),
      Cat(<<W_unset, W_x>>),
      Cat(<<W_jobs>>),
      Cat(<<W_kill>>),
      Cat(<<W_kill, W_x>>) } \cup {KillLine(n) : n \in 1..ShellPid}

Next ==
    \/ Prompt
    \/ ReadEOF
    \/ /\ nreads < MaxReads
       /\ \E line \in Lines, env \in EnvChoices : ReadLine(line, env)
    \/ WaitDone
    \/ \E p \in Pids, inOK, outOK, pipeOK, execOK \in BOOLEAN, rpid \in Pids \cup {0} :
          ChildSetup(p, inOK, outOK, pipeOK, rpid, execOK)
    \/ \E q \in Pids, execOK, reader \in BOOLEAN : RightExec(q, execOK, reader)
    \/ \E p \in Pids, execOK \in BOOLEAN, towrite \in 0..MaxWrite : LeftExec(p, execOK, towrite)
    \/ \E p \in Pids : ProgWrite(p)
    \/ \E p \in Pids : ProgExit(p)

Spec == Init /\ [][Next]_vars

\* ------------------------------------------------------------ claim C10
\* the loop ended because the exit built-in returned 0
ByExit == pc = "done" /\ status = 0 /\ args[1] = W_exit

\* the loop ended because fgets returned NULL
ByEOF == pc = "done" /\ status = 1 /\ out = <<Msg("exit")>>

\* the shell was terminated by the SIGTERM its own kill built-in sent to it
BySelfKill ==
    /\ pc = "killed"
    /\ args[1] = W_kill
    /\ args[2] # NULL
    /\ Atoi(args[2]) = ShellPid

\* C10 as stated: the shell ends only by exit or end of input, and
\* execute_command returns 0 only for exit.
C10_OnlyExitOrEOF ==
    /\ pc \in {"done", "killed"} => (ByExit \/ ByEOF)
    /\ status = 0 => ByExit

\* C10, amended: the shell ends only by exit, by end of input, or by the
\* kill built-in signalling the shell's own pid; execute_command returns 0
\* only for exit.
C10_Termination ==
    /\ pc \in {"done", "killed"} => (ByExit \/ ByEOF \/ BySelfKill)
    /\ status = 0 => ByExit

\* a failed kill was reported and the shell is back at the top of its loop
C10_Witness ==
    /\ pc = "prompt"
    /\ status = 1
    /\ out = <<Msg("kill failed")>>
    /\ nreads > 1


\* ------------------------------------------------------------ history runs
\* the n-th non-empty line of a history run, unless an odd line is read
Numbered(n) == Cat(<<W_echo, Decimal(n)>>)

\* a line longer than cmd_copy
LongLine == Cat(<<W_echo, [i \in 1..MAX_CMDLINE_COPY |-> "x"]>>)

L_history == Cat(<<W_history>>)

\* no built-in of a history run forks, and none of its calls fails
HistEnv == [forkpid |-> 0, ok |-> TRUE, survives |-> FALSE]

\* a history run reads numbered echo lines, some of them over-long, and ends
\* with a history listing or with the end of input
HistNext ==
    \/ Prompt
    \/ ReadEOF
    \/ /\ nreads < MaxReadsHist
       /\ ~(Len(consumed) > 0 /\ consumed[Len(consumed)] = L_history)
       /\ \/ ReadLine(Numbered(Len(consumed) + 1), HistEnv)
          \/ (Len(consumed) + 1) % LongEvery = 0 /\ ReadLine(LongLine, HistEnv)
          \/ ReadLine(L_history, HistEnv)

SpecHist == Init /\ [][HistNext]_vars

\* ------------------------------------------------------------ claim C9
\* the last n elements of a sequence
Window(seq, n) == SubSeq(seq, Len(seq) - n + 1, Len(seq))

\* the listing the history built-in printed is still what out holds
HistoryListed == args[1] = W_history /\ pc \in {"prompt", "read"}

Listing(hist) == [i \in 1..Len(hist) |-> HistLine(i, hist[i])]

ForegroundLaunch(pid) ==
    /\ LineStep
    /\ StepToks[1] # NULL
    /\ BuiltinIndex(StepToks) = 0
    /\ ~IsBackground(StepToks)
    /\ pid \notin DOMAIN procs
    /\ pid \in DOMAIN procs'

\* C11: after it forked the child of a non-background external command the
\* shell is in its waitpid for that child, and it neither prompts nor reads
\* again before that child has terminated, however the child ended.
C11_ForegroundWait ==
    [][/\ \A pid \in Pids :
            ForegroundLaunch(pid) => (pc' = "wait" /\ fgpid' = pid)
       /\ (pc # "wait" /\ pc' = "wait") => \E pid \in Pids : ForegroundLaunch(pid)
       /\ pc = "wait" =>
            /\ nreads' = nreads
            /\ \/ pc' = "wait" /\ fgpid' = fgpid
               \/ /\ pc' = "prompt"
                  /\ fgpid \in DOMAIN procs
                  /\ procs[fgpid].st = "zombie"
                  /\ procs[fgpid].ppid = ShellPid]_vars

\* the shell is in its waitpid and the foreground child has terminated with
\* a failure status
C11_Witness ==
    /\ pc = "wait"
    /\ fgpid \in DOMAIN procs
    /\ procs[fgpid].st = "zombie"
    /\ procs[fgpid].how = "fail"


\* ------------------------------------------------------------ job list capacity runs
\* background launches one after the other, each read once the child of the
\* one before is gone; a jobs or kill line ends the run
L_bg == Cat(<<P_a, T_amp>>)
L_jobs == Cat(<<W_jobs>>)

CapEnv == [forkpid : {1}, ok : {TRUE}, survives : {FALSE}]

CapNext ==
    \/ Prompt
    \/ ReadEOF
    \/ /\ nreads < MaxReadsCap
       /\ ~(Len(consumed) > 0 /\ consumed[Len(consumed)] # L_bg)
       /\ \/ procs = << >> /\ \E env \in CapEnv : ReadLine(L_bg, env)
          \/ \E env \in CapEnv : ReadLine(L_jobs, env)
          \/ \E env \in CapEnv : ReadLine(KillLine(1), env)
    \/ \E p \in Pids, execOK \in BOOLEAN : ChildSetup(p, TRUE, TRUE, TRUE, 0, execOK)
    \/ \E p \in Pids : ProgExit(p)

SpecCap == Init /\ [][CapNext]_vars

\* ------------------------------------------------------------ claim C12
\* C12: a background launch appends (pid, command line, running) at the end
\* of the job list while job_count < MAX_JOBS and leaves the list alone
\* otherwise; no other step changes job_count; job_count never exceeds
\* MAX_JOBS; the records keep their places; jobs lists them in that order.
C12_JobList ==
    [][/\ Len(jobs) <= MAX_JOBS /\ Len(jobs') <= MAX_JOBS
       /\ \A pid \in Pids :
            BackgroundLaunch(pid) =>
                jobs' = IF Len(jobs) < MAX_JOBS
                        THEN Append(jobs, job_t(pid, cmd_copy', 1))
                        ELSE jobs
       /\ ~(\E pid \in Pids : BackgroundLaunch(pid)) => Len(jobs') = Len(jobs)
       /\ \A i \in 1..Len(jobs) :
            /\ i <= Len(jobs')
            /\ jobs'[i].pid = jobs[i].pid
            /\ jobs'[i].cmdline = jobs[i].cmdline
       /\ BuiltinStep(W_jobs) =>
            out' = IF Len(jobs') = 0 THEN <<Msg("No background jobs.")>>
                   ELSE [i \in 1..Len(jobs') |-> JobLine(i, jobs'[i])]]_vars

\* a background launch was made with the job list full, and nothing was
\* registered for it
C12_Witness ==
    /\ Len(jobs) = MAX_JOBS
    /\ Len(consumed) = MAX_JOBS + 1
    /\ consumed[Len(consumed)] = L_bg
    /\ out = <<<<"Started background job with PID", 1>>>>


\* ------------------------------------------------------------ claim C13
\* this step is the call of reap_children_nonblocking at the top of the loop
ReapStep == pc = "prompt" /\ pc' = "read"

\* the children of the shell
ShellChildren(ps) == {p \in DOMAIN ps : ps[p].ppid = ShellPid}

\* C13: reap_children_nonblocking reaps every terminated child of the shell
\* and no other process, marks finished every record that carries a reaped
\* pid, leaves every other record as it was, and changes nothing when the
\* shell has no children.
C13_Reap ==
    [][ReapStep =>
         LET reaped == ShellZombies(procs)
         IN  /\ DOMAIN procs' = DOMAIN procs \ reaped
             /\ \A p \in DOMAIN procs' : procs'[p] = procs[p]
             /\ Len(jobs') = Len(jobs)
             /\ \A i \in 1..Len(jobs) :
                    IF jobs[i].pid \in reaped
                    THEN jobs'[i] = [jobs[i] EXCEPT !.running = 0]
                    ELSE jobs'[i] = jobs[i]
             /\ ShellChildren(procs) = {} => (jobs' = jobs /\ procs' = procs)]_vars


\* ------------------------------------------------------------ claim C14
\* C14: no record carries the pid of another record that is marked finished.
C14_NoPidReuse ==
    \A i, j \in 1..Len(jobs) :
        (i # j /\ jobs[i].running = 0) => jobs[j].pid # jobs[i].pid


\* ------------------------------------------------------------ claim C15
\* this step ran execute_command for an external command and its fork failed
ForkFailed ==
    /\ LineStep
    /\ StepToks[1] # NULL
    /\ BuiltinIndex(StepToks) = 0
    /\ DOMAIN procs' \subseteq DOMAIN procs

\* C15: when fork fails the failure is reported, the processes and the job
\* list are as before, and execute_command returns 1 without waiting.
C15_ForkFailure ==
    [][ForkFailed =>
         /\ out' = <<Msg("fork failed")>>
         /\ procs' = procs
         /\ jobs' = jobs
         /\ status' = 1
         /\ fgpid' = 0
         /\ pc' = "prompt"]_vars

\* fork failed for a line that ended with "&"
C15_Witness ==
    /\ out = <<Msg("fork failed")>>
    /\ pc = "prompt"
    /\ Len(consumed) > 0
    /\ IsBackground(Tokenize(consumed[Len(consumed)]))
    /\ jobs = << >>


\* ------------------------------------------------------------ signals
\* handle_signal: for SIGINT a newline is printed, and the handler returns
\* to the interrupted code
handle_signal(signo, o) == IF signo = "SIGINT" THEN Append(o, Msg("newline")) ELSE o

\* a main that leaves SIGINT at its default action
Disposition_Default(signo) == "SIG_DFL"

\* the dispositions main installs: handle_signal for SIGINT (signal() as
\* built by the README's gcc line keeps the handler installed and restarts
\* the interrupted fgets or waitpid), the default action otherwise
Disposition(signo) == IF signo = "SIGINT" THEN "handle_signal" ELSE "SIG_DFL"

Handled(o) == Cardinality({i \in 1..Len(o) : o[i] = Msg("newline")})

\* SIGINT is delivered to process t: to the shell at any point of its loop;
\* to a forked child that has not exec'd yet, which inherited the handler
\* and goes on; or to a program, which has the default action back after
\* execvp and terminates unless it handles the signal itself (survives)
Sigint(t, survives) ==
    \/ /\ t = ShellPid
       /\ pc \in {"prompt", "read", "wait"}
       /\ Handled(out) < MaxSigint
       /\ IF Disposition("SIGINT") = "handle_signal"
          THEN /\ out' = handle_signal("SIGINT", out)
               /\ UNCHANGED <<pc, procs>>
          ELSE /\ pc' = "killed"
               /\ procs' = ShellGone(procs)
               /\ out' = out
       /\ UNCHANGED <<status, cmd_copy, args, history, jobs, fgpid, consumed, nreads>>
    \/ /\ t \in DOMAIN procs
       /\ procs[t].st # "zombie"
       /\ procs' = IF procs[t].st = "run" /\ ~survives
                   THEN Die(procs, t, "sigint")
                   ELSE procs
       /\ UNCHANGED <<pc, status, cmd_copy, args, history, jobs, fgpid, out, consumed, nreads>>

SigLines ==
    { Cat(<<P_a>>), L_bg, Cat(<<P_a, T_pipe, P_b>>), L_jobs, Cat(<<W_exit>>) }

SigNext ==
    \/ Prompt
    \/ ReadEOF
    \/ /\ nreads < MaxReadsExec
       /\ \E line \in SigLines, env \in EnvChoices : ReadLine(line, env)
    \/ WaitDone
    \/ \E p \in Pids, execOK \in BOOLEAN, rpid \in Pids \cup {0} :
          ChildSetup(p, TRUE, TRUE, TRUE, rpid, execOK)
    \/ \E q \in Pids, reader \in BOOLEAN : RightExec(q, TRUE, reader)
    \/ \E p \in Pids : LeftExec(p, TRUE, 0)
    \/ \E p \in Pids : ProgExit(p)
    \/ \E t \in Pids \cup {ShellPid}, survives \in BOOLEAN : Sigint(t, survives)

SpecSig == Init /\ [][SigNext]_vars

\* ------------------------------------------------------------ claim C16
\* this step is the shell's handling of a SIGINT
ShellSigint == out' = Append(out, Msg("newline"))

\* C16: no step ends the shell other than exit and end of input, with
\* SIGINTs arriving at any point; and a SIGINT leaves the shell where it
\* was: at the prompt, in fgets, or in its wait for the foreground child.
C16_SigintSurvived ==
    [][/\ pc' # "killed"
       /\ (pc # "done" /\ pc' = "done") =>
            (pc = "read" /\ (status' = 0 \/ out' = <<Msg("exit")>>))
       /\ ShellSigint =>
            /\ pc' = pc
            /\ UNCHANGED <<status, cmd_copy, args, history, jobs, procs, fgpid,
                           consumed, nreads>>]_vars

\* the shell has handled a SIGINT during its wait for a foreground child
\* that is still running, and is still waiting
C16_Witness ==
    /\ pc = "wait"
    /\ Handled(out) > 0
    /\ fgpid \in DOMAIN procs
    /\ procs[fgpid].st = "run"


\* ------------------------------------------------------------ claim C17
\* in this step the left-hand process p of a pipe replaced its image
LeftExecs(p) ==
    /\ p \in DOMAIN procs
    /\ procs[p].st = "leftwait"
    /\ p \in DOMAIN procs'
    /\ procs'[p].st = "run"

\* C17: the left-hand process execs only once the right-hand process it
\* forked has terminated, and runs the first command with standard output
\* on the write end of their pipe; a right-hand process has its standard
\* input on the read end of that pipe from its fork on.
C17_LeftAfterRight ==
    [][/\ \A p \in Pids :
            LeftExecs(p) =>
                LET r == procs[p].waitfor
                IN  /\ r \in DOMAIN procs
                    /\ procs[r].st = "zombie"
                    /\ r \notin DOMAIN procs'
                    /\ procs'[p].out = PipeW(p, r)
                    /\ procs'[p].waited # "none"
       /\ \A q \in DOMAIN procs' :
            procs'[q].st \in {"rightforked", "run"} /\ procs'[q].side = "right" =>
                /\ procs'[q].in[1] = "pipe_r"
                /\ procs'[q].in[3] = q
                /\ \A p \in DOMAIN procs' :
                      (procs'[p].st = "leftwait" /\ procs'[p].waitfor = q) =>
                          /\ procs'[q].in = PipeR(p, q)
                          /\ procs'[p].out = PipeW(p, q)]_vars

\* the first command runs, after the second one has exited
C17_Witness ==
    \E p \in DOMAIN procs :
        /\ procs[p].st = "run"
        /\ procs[p].side = "left"
        /\ procs[p].waited = "exit"
        /\ procs[p].out[1] = "pipe_w"


\* ------------------------------------------------------------ job marking runs
\* background launches, jobs and kill <pid> lines; the programs may handle
\* SIGTERM, and the kernel may hand a reaped pid out again
MarkLines == {L_bg, L_jobs} \cup {KillLine(n) : n \in Pids}

MarkEnv == [forkpid : FreePids, ok : {TRUE}, survives : BOOLEAN]

MarkNext ==
    \/ Prompt
    \/ ReadEOF
    \/ /\ nreads < MaxReadsJobs
       /\ \E line \in MarkLines, env \in MarkEnv : ReadLine(line, env)
    \/ \E p \in Pids, execOK \in BOOLEAN : ChildSetup(p, TRUE, TRUE, TRUE, 0, execOK)
    \/ \E p \in Pids : ProgExit(p)

SpecMark == Init /\ [][MarkNext]_vars

\* ------------------------------------------------------------ claim C18
\* C18 as stated: a record's running flag is cleared only for a process
\* that has terminated.
C18_ClearedOnlyWhenExited ==
    [][\A i \in 1..Len(jobs) :
         (jobs[i].running = 1 /\ jobs'[i].running = 0) =>
            ~StillRuns(procs', jobs[i].pid)]_vars

\* C18, amended: a record's running flag is cleared only when reconcile (at
\* the prompt or in jobs) reaps a terminated child with the record's pid, or
\* when a kill for that pid has sent SIGTERM; the signalled process may
\* still be running.
C18_ClearedByReapOrKill ==
    [][\A i \in 1..Len(jobs) :
         (jobs[i].running = 1 /\ jobs'[i].running = 0) =>
            \/ /\ ReapStep \/ BuiltinStep(W_jobs)
               /\ jobs[i].pid \in ShellZombies(procs)
            \/ KillSent(jobs[i].pid)]_vars

\* the only record is marked finished after a kill and its process, which
\* handled the SIGTERM, still runs
C18_Witness ==
    /\ Len(jobs) = 1
    /\ jobs[1].running = 0
    /\ StillRuns(procs, jobs[1].pid)
    /\ procs[jobs[1].pid].st = "run"
    /\ consumed[Len(consumed)] = KillLine(jobs[1].pid)


\* ------------------------------------------------------------ claim C19
\* the processes that run shell_loop: the shell while its loop lasts, and
\* any forked process that has come back from execute_command
InLoop ==
    (IF pc \in {"done", "killed"} THEN {} ELSE {ShellPid})
        \cup {p \in DOMAIN procs : procs[p].st = "shell_loop"}

\* C19: every process execute_command forked is in the child branch, has
\* replaced its image, or has terminated; none runs shell_loop, so at most
\* one process does.
C19_OneLoop ==
    /\ \A p \in DOMAIN procs :
          procs[p].st \in {"forked", "leftwait", "rightforked", "run", "zombie"}
    /\ Cardinality(InLoop) <= 1

\* the right-hand process of a pipe failed to exec and exited, and the
\* left-hand process went on to exec the first command
C19_Witness ==
    \E p \in DOMAIN procs :
        /\ procs[p].st = "run"
        /\ procs[p].side = "left"
        /\ procs[p].waited = "fail"


\* ------------------------------------------------------------ claim C20
\* C20: job_count never decreases, a record keeps its pid and its command
\* line, and a record marked finished stays marked finished.
C20_RecordsStable ==
    [][/\ Len(jobs') >= Len(jobs)
       /\ \A i \in 1..Len(jobs) :
            /\ jobs'[i].pid = jobs[i].pid
            /\ jobs'[i].cmdline = jobs[i].cmdline
            /\ jobs[i].running = 0 => jobs'[i].running = 0]_vars

\* a finished record has stayed finished while its pid was registered again
\* for a later job
C20_Witness ==
    /\ Len(jobs) = 2
    /\ jobs[1].running = 0
    /\ jobs[2].running = 1
    /\ jobs[2].pid = jobs[1].pid
    /\ StillRuns(procs, jobs[2].pid)

====
